---------------------------- MODULE Spec2Model ----------------------------
(***************************************************************************)
(* Gatsibo Smart Irrigation Scheduler (src/app.py): a Streamlit script.    *)
(* Every browser session runs the script top to bottom on each            *)
(* interaction; the two loaders are memoised process-wide by Streamlit.    *)
(*                                                                         *)
(* Quantities in millimetres are fixed-point integers in thousandths of a  *)
(* millimetre (5 mm = 5000); a float that is NaN is a separate value.      *)
(***************************************************************************)
EXTENDS Integers, Sequences, FiniteSets

\* ------------------------------------------------------------- bounds
MaxWeeks == 2        \* rows of the longest weekly schedule present at the start
MaxMissing == 1      \* most files absent from the working directory at once

\* Browser sessions served by the one Streamlit process.  The properties
\* that relate sessions relate them pairwise, so two are modelled.
Sessions == {1, 2}

\* ------------------------------------------------------------- floats
Num(v) == [nan |-> FALSE, v |-> v]
NaN == [nan |-> TRUE, v |-> 0]

\* "<" written as "<=".
Lt_Inclusive(x, t) == ~x.nan /\ x.v <= t

\* IEEE-754 "<" as Python evaluates it: any comparison with NaN is False.
Lt(x, t) == ~x.nan /\ x.v < t

\* IEEE-754 subtraction: NaN if either operand is NaN.
Sub(x, y) == IF x.nan \/ y.nan THEN NaN ELSE Num(x.v - y.v)

\* Round v / d to the nearest integer, ties to even (Python's float format).
RoundHalfEven(v, d) ==
    LET q == v \div d
        r == v % d
    IN  IF 2 * r < d THEN q
        ELSE IF 2 * r > d THEN q + 1
        ELSE IF q % 2 = 0 THEN q ELSE q + 1

\* f"{x:.1f}": the number of tenths printed, or the text "nan".  The values
\* modelled never lie halfway between two tenths, and the sign Python keeps
\* on a negative value that rounds to zero is not represented.
Fmt1(x) == IF x.nan THEN [nan |-> TRUE, digits |-> 0, places |-> 1]
           ELSE [nan |-> FALSE, digits |-> RoundHalfEven(x.v, 100), places |-> 1]

\* f"{x:.0f}": the number of units printed, or the text "nan".
Fmt0(x) == IF x.nan THEN [nan |-> TRUE, digits |-> 0, places |-> 0]
           ELSE [nan |-> FALSE, digits |-> RoundHalfEven(x.v, 1000), places |-> 0]

\* Irrigation_needed_mm values the upstream feed may hold (thousandths).
Values ==
    { Num(0), Num(4999), Num(5000), Num(19999), Num(20000), Num(35500),
      Num(39999), Num(40000), Num(100000), Num(-1000), NaN }

\* ------------------------------------------------------------- the cascade
\* Thresholds of the if/elif chain, in thousandths of a millimetre.
LightFrom == 5000
ModerateFrom == 20000
HeavyFrom == 40000

Unset == "unset"
NoAdvisory == [recommendation |-> Unset, color |-> Unset, advice |-> Unset]

\* The LIGHT branch carrying the colour of the MODERATE one.
Branch_Mixed(i) ==
    CASE i = 1 -> [recommendation |-> "MINIMAL irrigation needed",
                   color |-> "#4CAF50",
                   advice |-> "Recent rainfall is sufficient. Monitor crop condition."]
      [] i = 2 -> [recommendation |-> "LIGHT irrigation recommended",
                   color |-> "#FF9800",
                   advice |-> "Supplement rainfall with light irrigation."]
      [] i = 3 -> [recommendation |-> "MODERATE irrigation required",
                   color |-> "#FF9800",
                   advice |-> "Regular irrigation needed to maintain crop health."]
      [] i = 4 -> [recommendation |-> "HEAVY irrigation required",
                   color |-> "#F44336",
                   advice |-> "Crop water stress likely. Irrigate immediately!"]

\* The assignments made by the i-th branch of the chain.
Branch(i) ==
    CASE i = 1 -> [recommendation |-> "MINIMAL irrigation needed",
                   color |-> "#4CAF50",
                   advice |-> "Recent rainfall is sufficient. Monitor crop condition."]
      [] i = 2 -> [recommendation |-> "LIGHT irrigation recommended",
                   color |-> "#FFC107",
                   advice |-> "Supplement rainfall with light irrigation."]
      [] i = 3 -> [recommendation |-> "MODERATE irrigation required",
                   color |-> "#FF9800",
                   advice |-> "Regular irrigation needed to maintain crop health."]
      [] i = 4 -> [recommendation |-> "HEAVY irrigation required",
                   color |-> "#F44336",
                   advice |-> "Crop water stress likely. Irrigate immediately!"]

\* The first test written with ">".
Cond_Reversed(i, x) ==
    CASE i = 1 -> ~x.nan /\ x.v > LightFrom
      [] i = 2 -> Lt(x, ModerateFrom)
      [] i = 3 -> Lt(x, HeavyFrom)
      [] i = 4 -> TRUE

\* The test guarding the i-th branch (the else branch has none).
Cond(i, x) ==
    CASE i = 1 -> Lt(x, LightFrom)
      [] i = 2 -> Lt(x, ModerateFrom)
      [] i = 3 -> Lt(x, HeavyFrom)
      [] i = 4 -> TRUE

\* "elif" written as "if": three independent tests, the else on the last.
Executes_IfChain(i, x) == IF i = 4 THEN ~Cond(3, x) ELSE Cond(i, x)

\* if / elif / elif / else: a branch runs when its test is the first to hold.
Executes(i, x) == Cond(i, x) /\ \A j \in 1..(i - 1) : ~Cond(j, x)

BranchesRun(x) == {i \in 1..4 : Executes(i, x)}

\* The values of recommendation, color and advice once the chain has run:
\* those of the last branch executed, the earlier ones being overwritten.
Cascade(x) ==
    LET ran == BranchesRun(x)
    IN  IF ran = {} THEN NoAdvisory
        ELSE Branch(CHOOSE i \in ran : \A j \in ran : j <= i)

\* ------------------------------------------------------------- files and tables
DataCsv == "gatsibo_complete_irrigation_data.csv"
WeeklyCsv == "gatsibo_irrigation_schedule_weekly.csv"
ForecastCsv == "irrigation_forecast_7days.csv"
ModelPkl == "irrigation_ml_model.pkl"
FeaturesPkl == "model_features.pkl"

DataFiles == <<DataCsv, WeeklyCsv, ForecastCsv>>
ModelFiles == <<ModelPkl, FeaturesPkl>>
FileNames == {DataCsv, WeeklyCsv, ForecastCsv, ModelPkl, FeaturesPkl}

\* A row of the weekly schedule: its index (the week) and the one column
\* the advisory reads.  Rainfall_week_mm and ETc_week_mm are only printed.
Row(w, x) == [week |-> w, Irrigation_needed_mm |-> x]

\* A weekly schedule is a sequence of rows whose index counts the weeks.
\* The script reads the last two rows; the tables enumerated differ in
\* those and hold OlderWeek in every row before them.
OlderWeek == Num(0)

WeeklyTables(n) ==
    UNION { { [i \in 1..k |->
                 Row(i, IF i + 2 <= k THEN OlderWeek
                        ELSE f[IF k <= 2 THEN i ELSE i + 2 - k])] :
              f \in [1..(IF k <= 2 THEN k ELSE 2) -> Values] } : k \in 0..n }

\* The daily table is represented by the calendar month of each of its rows.
FullYears == [i \in 1..12 |-> i]
ShortSeason == <<11, 12>>
DailyTables == {FullYears, ShortSeason}

\* The forecast table: irrigation_mm per forecast day.
ForecastTable == <<Num(670), Num(1320), Num(660)>>

Pages == <<"Dashboard", "7-Day Forecast", "Historical Analysis",
           "About Gatsibo", "About This Tool">>
PageSet == {Pages[i] : i \in 1..Len(Pages)}

\* A Python name that is not bound yet, or an optional value: <<>> or <<v>>.
None == <<>>
Some(v) == <<v>>

VARIABLES
    missing,          \* files absent from the working directory
    dataFile,         \* contents of the daily csv
    weeklyFile,       \* contents of the weekly csv
    cache_data,       \* st.cache_data entry of load_data
    cache_resource,   \* st.cache_resource entry of load_model
    pc,               \* per session: where the script run is
    widget,           \* per session: value of the sidebar radio
    page,             \* per session: the script's page variable
    data,             \* per session: the script's data variable
    weekly_schedule,  \* per session
    forecast_7day,    \* per session
    model,            \* per session: (model, model_features)
    latest_week,      \* per session
    advisory,         \* per session: recommendation, color, advice
    metrics,          \* per session: the four st.metric cards of the Dashboard
    panel,            \* per session: the advisory box written to the page
    screen            \* per session: elements delivered to the browser

env == <<missing, dataFile, weeklyFile>>
caches == <<cache_data, cache_resource>>
tables == <<data, weekly_schedule, forecast_7day, model>>
locals == <<page, latest_week, advisory, metrics, panel>>
vars == <<missing, dataFile, weeklyFile, cache_data, cache_resource, pc, widget,
          page, data, weekly_schedule, forecast_7day, model, latest_week,
          advisory, metrics, panel, screen>>

\* A fresh script run: no name bound, nothing on the page.
FreshRun(s) ==
    /\ page' = [page EXCEPT ![s] = Unset]
    /\ data' = [data EXCEPT ![s] = None]
    /\ weekly_schedule' = [weekly_schedule EXCEPT ![s] = None]
    /\ forecast_7day' = [forecast_7day EXCEPT ![s] = None]
    /\ model' = [model EXCEPT ![s] = None]
    /\ latest_week' = [latest_week EXCEPT ![s] = None]
    /\ advisory' = [advisory EXCEPT ![s] = NoAdvisory]
    /\ metrics' = [metrics EXCEPT ![s] = None]
    /\ panel' = [panel EXCEPT ![s] = None]
    /\ screen' = [screen EXCEPT ![s] = {}]

InitSessions ==
    /\ pc = [s \in Sessions |-> "start"]
    /\ widget = [s \in Sessions |-> Pages[1]]
    /\ page = [s \in Sessions |-> Unset]
    /\ data = [s \in Sessions |-> None]
    /\ weekly_schedule = [s \in Sessions |-> None]
    /\ forecast_7day = [s \in Sessions |-> None]
    /\ model = [s \in Sessions |-> None]
    /\ latest_week = [s \in Sessions |-> None]
    /\ advisory = [s \in Sessions |-> NoAdvisory]
    /\ metrics = [s \in Sessions |-> None]
    /\ panel = [s \in Sessions |-> None]
    /\ screen = [s \in Sessions |-> {}]
    /\ cache_data = None
    /\ cache_resource = None

Init ==
    /\ missing \in {m \in SUBSET FileNames : Cardinality(m) <= MaxMissing}
    /\ dataFile \in DailyTables
    /\ weeklyFile \in WeeklyTables(MaxWeeks)
    /\ InitSessions

\* ------------------------------------------------------------- the script
Goto(s, l) == pc' = [pc EXCEPT ![s] = l]
Show(s, els) == screen' = [screen EXCEPT ![s] = @ \cup els]

\* st.set_page_config and the style sheet.
StartRun(s) ==
    /\ pc[s] = "start"
    /\ Show(s, {"style"})
    /\ Goto(s, "load_data")
    /\ UNCHANGED <<env, caches, widget, tables, locals>>

\* The forecast csv read outside the try block's reach.
DataFileMissing_TwoOfThree == \E i \in 1..2 : <<DataCsv, WeeklyCsv>>[i] \in missing

\* What load_data's body does: the three files are read in order and the
\* first one absent raises FileNotFoundError.
DataFileMissing == \E i \in 1..Len(DataFiles) : DataFiles[i] \in missing

ReadTables == [data |-> dataFile, weekly |-> weeklyFile, forecast |-> ForecastTable]

BindTables(s, t) ==
    /\ data' = [data EXCEPT ![s] = Some(t.data)]
    /\ weekly_schedule' = [weekly_schedule EXCEPT ![s] = Some(t.weekly)]
    /\ forecast_7day' = [forecast_7day EXCEPT ![s] = Some(t.forecast)]

\* data, weekly_schedule, forecast_7day = load_data(), memoised by st.cache_data.
LoadData(s) ==
    /\ pc[s] = "load_data"
    /\ IF cache_data # None
       THEN /\ BindTables(s, cache_data[1])
            /\ Goto(s, "load_model")
            /\ UNCHANGED <<cache_data, screen>>
       ELSE IF DataFileMissing
       THEN /\ Show(s, {"error: Data file not found"})
            /\ Goto(s, "stopped")
            /\ UNCHANGED <<cache_data, data, weekly_schedule, forecast_7day>>
       ELSE /\ cache_data' = Some(ReadTables)
            /\ BindTables(s, ReadTables)
            /\ Goto(s, "load_model")
            /\ UNCHANGED screen
    /\ UNCHANGED <<env, cache_resource, widget, model, locals>>

\* What load_model's body returns, and whether it warns.
ModelFileMissing == \E i \in 1..Len(ModelFiles) : ModelFiles[i] \in missing

ReadModel ==
    IF ModelFileMissing THEN [model |-> "None", features |-> "None"]
    ELSE [model |-> "RandomForest", features |-> "model_features"]

ModelWarning(m) ==
    IF m.model = "None" THEN {"warning: ML model not found"} ELSE {}

\* model, model_features = load_model(), memoised by st.cache_resource, which
\* keeps the value returned and replays the elements the body wrote.
LoadModel(s) ==
    /\ pc[s] = "load_model"
    /\ LET m == IF cache_resource # None THEN cache_resource[1] ELSE ReadModel
       IN  /\ cache_resource' = Some(m)
           /\ model' = [model EXCEPT ![s] = Some(m)]
           /\ Show(s, ModelWarning(m))
    /\ Goto(s, "header")
    /\ UNCHANGED <<env, cache_data, widget, data, weekly_schedule, forecast_7day, locals>>

RenderHeader(s) ==
    /\ pc[s] = "header"
    /\ Show(s, {"header"})
    /\ Goto(s, "sidebar")
    /\ UNCHANGED <<env, caches, widget, tables, locals>>

\* The radio returns the session's selection; the quick stats read data.
RenderSidebar(s) ==
    /\ pc[s] = "sidebar"
    /\ page' = [page EXCEPT ![s] = widget[s]]
    /\ Show(s, {"sidebar"})
    /\ Goto(s, "page")
    /\ UNCHANGED <<env, caches, widget, tables, latest_week, advisory, metrics, panel>>

\* ------------------------------------------------------------- Dashboard
Crash(s, els) ==
    /\ Show(s, els \cup {"exception"})
    /\ Goto(s, "crashed")

\* The delta left out: only iloc[-1] is read, so one row is enough.
DashboardMetrics_NoDelta(s) ==
    /\ pc[s] = "page"
    /\ page[s] = "Dashboard"
    /\ LET w == weekly_schedule[s][1]
           n == Len(w)
       IN  IF n = 0
           THEN /\ Crash(s, {"Current Week Status"})
                /\ UNCHANGED <<latest_week, metrics>>
           ELSE /\ latest_week' = [latest_week EXCEPT ![s] = Some(w[n])]
                /\ metrics' = [metrics EXCEPT ![s] = Some(
                       [week_ending |-> w[n].week,
                        needed |-> Fmt1(w[n].Irrigation_needed_mm),
                        delta |-> Fmt1(NaN)])]
                /\ Show(s, {"Current Week Status", "metric: Week Ending",
                            "metric: Irrigation Needed", "metric: Rainfall Received",
                            "metric: Crop Water Need"})
                /\ Goto(s, "cascade")
    /\ UNCHANGED <<env, caches, widget, tables, page, advisory, panel>>

\* latest_week taken from the row before the last.
DashboardMetrics_Previous(s) ==
    /\ pc[s] = "page"
    /\ page[s] = "Dashboard"
    /\ LET w == weekly_schedule[s][1]
           n == Len(w)
       IN  IF n < 2
           THEN /\ Crash(s, {"Current Week Status"})
                /\ UNCHANGED <<latest_week, metrics>>
           ELSE /\ latest_week' = [latest_week EXCEPT ![s] = Some(w[n - 1])]
                /\ metrics' = [metrics EXCEPT ![s] = Some(
                       [week_ending |-> w[n].week,
                        needed |-> Fmt1(w[n - 1].Irrigation_needed_mm),
                        delta |-> Fmt1(Sub(w[n].Irrigation_needed_mm,
                                           w[n - 1].Irrigation_needed_mm))])]
                /\ Show(s, {"Current Week Status", "metric: Week Ending",
                            "metric: Irrigation Needed", "metric: Rainfall Received",
                            "metric: Crop Water Need"})
                /\ Goto(s, "cascade")
    /\ UNCHANGED <<env, caches, widget, tables, page, advisory, panel>>

\* "Current Week Status": latest_week, week_date and the four metric cards.
\* iloc[-1] needs one row and iloc[-2], read for the delta, needs two.
DashboardMetrics(s) ==
    /\ pc[s] = "page"
    /\ page[s] = "Dashboard"
    /\ LET w == weekly_schedule[s][1]
           n == Len(w)
       IN  IF n = 0
           THEN /\ Crash(s, {"Current Week Status"})
                /\ UNCHANGED <<latest_week, metrics>>
           ELSE IF n = 1
           THEN /\ latest_week' = [latest_week EXCEPT ![s] = Some(w[n])]
                /\ Crash(s, {"Current Week Status", "metric: Week Ending"})
                /\ UNCHANGED metrics
           ELSE /\ latest_week' = [latest_week EXCEPT ![s] = Some(w[n])]
                /\ metrics' = [metrics EXCEPT ![s] = Some(
                       [week_ending |-> w[n].week,
                        needed |-> Fmt1(w[n].Irrigation_needed_mm),
                        delta |-> Fmt1(Sub(w[n].Irrigation_needed_mm,
                                           w[n - 1].Irrigation_needed_mm))])]
                /\ Show(s, {"Current Week Status", "metric: Week Ending",
                            "metric: Irrigation Needed", "metric: Rainfall Received",
                            "metric: Crop Water Need"})
                /\ Goto(s, "cascade")
    /\ UNCHANGED <<env, caches, widget, tables, page, advisory, panel>>

\* The chain testing the change since the week before instead of the need.
DashboardCascade_Delta(s) ==
    /\ pc[s] = "cascade"
    /\ LET w == weekly_schedule[s][1]
       IN  advisory' = [advisory EXCEPT ![s] =
               Cascade(Sub(w[Len(w)].Irrigation_needed_mm,
                           w[Len(w) - 1].Irrigation_needed_mm))]
    /\ Goto(s, "panel")
    /\ UNCHANGED <<env, caches, widget, tables, page, latest_week, metrics, panel, screen>>

\* The chain clamping a negative need to zero in the table before testing it.
DashboardCascade_Clamp(s) ==
    /\ pc[s] = "cascade"
    /\ LET w == weekly_schedule[s][1]
           x == latest_week[s][1].Irrigation_needed_mm
           c == IF Lt(x, 0) THEN Num(0) ELSE x
       IN  /\ weekly_schedule' = [weekly_schedule EXCEPT ![s] =
                  Some([w EXCEPT ![Len(w)] = Row(Len(w), c)])]
           /\ advisory' = [advisory EXCEPT ![s] = Cascade(c)]
    /\ Goto(s, "panel")
    /\ UNCHANGED <<env, caches, widget, data, forecast_7day, model, page,
                   latest_week, metrics, panel, screen>>

\* The if / elif / else chain on latest_week['Irrigation_needed_mm'].
DashboardCascade(s) ==
    /\ pc[s] = "cascade"
    /\ advisory' = [advisory EXCEPT ![s] = Cascade(latest_week[s][1].Irrigation_needed_mm)]
    /\ Goto(s, "panel")
    /\ UNCHANGED <<env, caches, widget, tables, page, latest_week, metrics, panel, screen>>

\* The coloured box: recommendation, advice and the amount to apply.
DashboardPanel(s) ==
    /\ pc[s] = "panel"
    /\ panel' = [panel EXCEPT ![s] = Some(
           [color |-> advisory[s].color,
            recommendation |-> advisory[s].recommendation,
            advice |-> advisory[s].advice,
            apply |-> Fmt0(latest_week[s][1].Irrigation_needed_mm)])]
    /\ Show(s, {"advisory"})
    /\ Goto(s, "charts")
    /\ UNCHANGED <<env, caches, widget, tables, page, latest_week, advisory, metrics>>

\* The two charts read weekly_schedule.tail(12) and data.tail(30).
DashboardCharts(s) ==
    /\ pc[s] = "charts"
    /\ Show(s, {"chart: Water Balance - Last 12 Weeks", "chart: Daily Water Balance"})
    /\ Goto(s, "footer")
    /\ UNCHANGED <<env, caches, widget, tables, locals>>

\* ------------------------------------------------------------- other pages
RenderForecast(s) ==
    /\ pc[s] = "page"
    /\ page[s] = "7-Day Forecast"
    /\ Show(s, {"7-Day Irrigation Forecast", "Scenario Analysis"})
    /\ Goto(s, "footer")
    /\ UNCHANGED <<env, caches, widget, tables, locals>>

\* Months present in the daily table: the groups of groupby(data.index.month).
MonthsOf(d) == {d[i] : i \in 1..Len(d)}

\* monthly_avg.index = month_names raises unless there are twelve groups.
RenderHistorical(s) ==
    /\ pc[s] = "page"
    /\ page[s] = "Historical Analysis"
    /\ IF Cardinality(MonthsOf(data[s][1])) = 12
       THEN /\ Show(s, {"Historical Data Analysis", "Annual Water Balance",
                        "Monthly Irrigation Patterns", "Key Statistics"})
            /\ Goto(s, "footer")
       ELSE Crash(s, {"Historical Data Analysis", "Annual Water Balance"})
    /\ UNCHANGED <<env, caches, widget, tables, locals>>

RenderAboutGatsibo(s) ==
    /\ pc[s] = "page"
    /\ page[s] = "About Gatsibo"
    /\ Show(s, {"About Gatsibo District"})
    /\ Goto(s, "footer")
    /\ UNCHANGED <<env, caches, widget, tables, locals>>

RenderAboutTool(s) ==
    /\ pc[s] = "page"
    /\ page[s] = "About This Tool"
    /\ Show(s, {"About This Tool"})
    /\ Goto(s, "footer")
    /\ UNCHANGED <<env, caches, widget, tables, locals>>

\* The footer indented into the last elif.
RenderFooter_Indented(s) ==
    /\ pc[s] = "footer"
    /\ Show(s, IF page[s] = "About This Tool" THEN {"footer"} ELSE {})
    /\ Goto(s, "done")
    /\ UNCHANGED <<env, caches, widget, tables, locals>>

RenderFooter(s) ==
    /\ pc[s] = "footer"
    /\ Show(s, {"footer"})
    /\ Goto(s, "done")
    /\ UNCHANGED <<env, caches, widget, tables, locals>>

\* A run that has ended is followed by another when the user picks a page
\* (or asks for a rerun); after st.stop() there is no radio to pick from.
Rerun(s, p) ==
    /\ pc[s] \in {"done", "crashed", "stopped"}
    /\ pc[s] = "stopped" => p = widget[s]
    /\ widget' = [widget EXCEPT ![s] = p]
    /\ FreshRun(s)
    /\ Goto(s, "start")
    /\ UNCHANGED <<env, caches>>

\* ------------------------------------------------------------- environment
sessionVars == <<pc, widget, tables, locals, screen>>

RemoveFile(f) ==
    /\ f \notin missing
    /\ Cardinality(missing) < MaxMissing
    /\ missing' = missing \cup {f}
    /\ UNCHANGED <<dataFile, weeklyFile, caches, sessionVars>>

RestoreFile(f) ==
    /\ f \in missing
    /\ missing' = missing \ {f}
    /\ UNCHANGED <<dataFile, weeklyFile, caches, sessionVars>>

\* Streamlit's "Clear cache" empties both memo tables.
ClearCache ==
    /\ cache_data # None \/ cache_resource # None
    /\ cache_data' = None
    /\ cache_resource' = None
    /\ UNCHANGED <<env, sessionVars>>

\* The upstream pipeline adds the week that has just ended (once, here).
UpstreamAppend(x) ==
    /\ Len(weeklyFile) < MaxWeeks + 1
    /\ weeklyFile' = Append(weeklyFile, Row(Len(weeklyFile) + 1, x))
    /\ UNCHANGED <<missing, dataFile, caches, sessionVars>>

Script(s) ==
    \/ StartRun(s)
    \/ LoadData(s)
    \/ LoadModel(s)
    \/ RenderHeader(s)
    \/ RenderSidebar(s)
    \/ DashboardMetrics(s)
    \/ DashboardCascade(s)
    \/ DashboardPanel(s)
    \/ DashboardCharts(s)
    \/ RenderForecast(s)
    \/ RenderHistorical(s)
    \/ RenderAboutGatsibo(s)
    \/ RenderAboutTool(s)
    \/ RenderFooter(s)
    \/ \E p \in PageSet : Rerun(s, p)

Environment ==
    \/ \E f \in FileNames : RemoveFile(f)
    \/ \E f \in FileNames : RestoreFile(f)
    \/ ClearCache

\* One session against a working directory whose files come and go.
Next == Script(1) \/ Environment

Spec == Init /\ [][Next]_vars

\* Two sessions against a complete working directory whose weekly schedule
\* is extended while they run.
InitShared ==
    /\ missing = {}
    /\ dataFile = FullYears
    /\ weeklyFile \in {t \in WeeklyTables(MaxWeeks) :
                         /\ Len(t) = MaxWeeks
                         /\ \A i \in 1..(Len(t) - 1) : t[i].Irrigation_needed_mm = OlderWeek}
    /\ InitSessions

NextShared ==
    \/ \E s \in Sessions : Script(s)
    \/ ClearCache
    \/ \E x \in Values : UpstreamAppend(x)

SpecShared == InitShared /\ [][NextShared]_vars

\* ------------------------------------------------------------- properties
\* The cascade has run in session s's current script run.
Classified(s) ==
    /\ page[s] = "Dashboard"
    /\ latest_week[s] # None
    /\ pc[s] \in {"panel", "charts", "footer", "done"}

\* The value the cascade tested.
Input(s) == latest_week[s][1].Irrigation_needed_mm

TierOf(recommendation) ==
    CASE recommendation = "MINIMAL irrigation needed" -> "MINIMAL"
      [] recommendation = "LIGHT irrigation recommended" -> "LIGHT"
      [] recommendation = "MODERATE irrigation required" -> "MODERATE"
      [] recommendation = "HEAVY irrigation required" -> "HEAVY"
      [] OTHER -> "NONE"

Tiers == {"MINIMAL", "LIGHT", "MODERATE", "HEAVY"}

NonNegative(x) == ~x.nan /\ x.v >= 0

\* The tier of the half-open interval holding v thousandths of a millimetre.
IntervalTier(v) ==
    IF v < 5000 THEN "MINIMAL"
    ELSE IF v < 20000 THEN "LIGHT"
    ELSE IF v < 40000 THEN "MODERATE"
    ELSE "HEAVY"

\* C1: a non-negative irrigation need is given the tier of the left-inclusive
\* interval that holds it, [0,5) MINIMAL, [5,20) LIGHT, [20,40) MODERATE,
\* [40,inf) HEAVY; 5, 20 and 40 fall in the upper tier and 4.999, 19.999 and
\* 39.999 in the lower one; 0 is MINIMAL, 35.5 MODERATE and 100 HEAVY.
C1_IntervalTier ==
    \A s \in Sessions :
        Classified(s) =>
            LET x == Input(s)
                tier == TierOf(advisory[s].recommendation)
            IN  /\ NonNegative(x) => tier = IntervalTier(x.v)
                /\ x = Num(0) => tier = "MINIMAL"
                /\ x = Num(4999) => tier = "MINIMAL"
                /\ x = Num(5000) => tier = "LIGHT"
                /\ x = Num(19999) => tier = "LIGHT"
                /\ x = Num(20000) => tier = "MODERATE"
                /\ x = Num(35500) => tier = "MODERATE"
                /\ x = Num(39999) => tier = "MODERATE"
                /\ x = Num(40000) => tier = "HEAVY"
                /\ x = Num(100000) => tier = "HEAVY"

C1_Witness ==
    \E s \in Sessions :
        /\ Classified(s)
        /\ Input(s) = Num(20000)
        /\ TierOf(advisory[s].recommendation) = "MODERATE"

\* C2: a negative or NaN irrigation need is rejected: the run produces no
\* recommendation, color or advice for it.
C2_InvalidRejected ==
    \A s \in Sessions :
        (latest_week[s] # None /\ ~NonNegative(Input(s))) =>
            /\ ~Classified(s)
            /\ advisory[s] = NoAdvisory
            /\ panel[s] = None

\* C3: for a non-negative irrigation need exactly one branch of the chain
\* runs, and it leaves recommendation, color and advice all assigned, the
\* recommendation naming one of the four tiers.
C3_ExactlyOneTier ==
    \A s \in Sessions :
        (Classified(s) /\ NonNegative(Input(s))) =>
            /\ Cardinality(BranchesRun(Input(s))) = 1
            /\ TierOf(advisory[s].recommendation) \in Tiers
            /\ advisory[s].color # Unset
            /\ advisory[s].advice # Unset

C3_Witness ==
    \E s \in Sessions :
        /\ Classified(s)
        /\ Input(s) = Num(4999)
        /\ BranchesRun(Input(s)) = {1}
        /\ advisory[s] = Branch(1)

SeverityRank(tier) ==
    CASE tier = "MINIMAL" -> 1
      [] tier = "LIGHT" -> 2
      [] tier = "MODERATE" -> 3
      [] tier = "HEAVY" -> 4
      [] OTHER -> 0

\* C4: of two classifications of non-negative needs a <= b, the tier given
\* to a never ranks above the tier given to b.
C4_Monotone ==
    \A s, t \in Sessions :
        (/\ Classified(s) /\ Classified(t)
         /\ NonNegative(Input(s)) /\ NonNegative(Input(t))
         /\ Input(s).v <= Input(t).v) =>
            /\ SeverityRank(TierOf(advisory[s].recommendation)) >= 1
            /\ SeverityRank(TierOf(advisory[s].recommendation))
                   <= SeverityRank(TierOf(advisory[t].recommendation))

C4_Witness ==
    \E s, t \in Sessions :
        /\ Classified(s) /\ Classified(t)
        /\ Input(s) = Num(19999) /\ Input(t) = Num(20000)
        /\ TierOf(advisory[s].recommendation) = "LIGHT"
        /\ TierOf(advisory[t].recommendation) = "MODERATE"

\* The tier, color and advice the four tiers are documented to carry.
AdvisoryTable ==
    { [tier |-> "MINIMAL", color |-> "#4CAF50",
       advice |-> "Recent rainfall is sufficient. Monitor crop condition."],
      [tier |-> "LIGHT", color |-> "#FFC107",
       advice |-> "Supplement rainfall with light irrigation."],
      [tier |-> "MODERATE", color |-> "#FF9800",
       advice |-> "Regular irrigation needed to maintain crop health."],
      [tier |-> "HEAVY", color |-> "#F44336",
       advice |-> "Crop water stress likely. Irrigate immediately!"] }

Paired(a) ==
    \E r \in AdvisoryTable :
        /\ TierOf(a.recommendation) = r.tier
        /\ a.color = r.color
        /\ a.advice = r.advice

\* C5: every classification result, and the box drawn from it, pairs its tier
\* with that tier's color and advice from the table; no two branches of the
\* chain share a tier, a color or an advice.
C5_TierColorAdvice ==
    /\ \A s \in Sessions :
           /\ Classified(s) => Paired(advisory[s])
           /\ (Classified(s) /\ panel[s] # None) =>
                  /\ Paired(panel[s][1])
                  /\ panel[s][1].recommendation = advisory[s].recommendation
    /\ \A i, j \in 1..4 :
           i # j => /\ TierOf(Branch(i).recommendation) # TierOf(Branch(j).recommendation)
                    /\ Branch(i).color # Branch(j).color
                    /\ Branch(i).advice # Branch(j).advice

C5_Witness ==
    \E s \in Sessions :
        /\ Classified(s)
        /\ panel[s] # None
        /\ panel[s][1].recommendation = "LIGHT irrigation recommended"
        /\ panel[s][1].color = "#FFC107"
        /\ panel[s][1].advice = "Supplement rainfall with light irrigation."

\* C6: two sessions that classified the same irrigation need hold the same
\* recommendation, color and advice, whatever either classified or rendered
\* in earlier runs and however their runs interleaved.
C6_Deterministic ==
    \A s, t \in Sessions :
        (Classified(s) /\ Classified(t) /\ Input(s) = Input(t)) =>
            advisory[s] = advisory[t]

\* Two sessions hold the same need read from schedules of different length.
C6_Witness ==
    \E s, t \in Sessions :
        /\ Classified(s) /\ Classified(t)
        /\ Input(s) = Input(t)
        /\ Len(weekly_schedule[s][1]) # Len(weekly_schedule[t][1])
        /\ advisory[s] = advisory[t]
        /\ advisory[s] # NoAdvisory

\* C7: the step that evaluates the chain assigns recommendation, color and
\* advice and nothing else: the session's weekly schedule, daily data,
\* forecast table and model, the files, the caches and what is on the page
\* are as they were.
C7_CascadeFrame ==
    [][\A s \in Sessions :
           (pc[s] = "cascade" /\ pc'[s] # "cascade") =>
               /\ pc'[s] = "panel"
               /\ advisory'[s] # NoAdvisory
               /\ UNCHANGED <<weekly_schedule, data, forecast_7day, model>>
               /\ UNCHANGED <<missing, dataFile, weeklyFile, cache_data, cache_resource>>
               /\ UNCHANGED <<widget, page, latest_week, metrics, panel, screen>>
               /\ \A t \in Sessions \ {s} : advisory'[t] = advisory[t] /\ pc'[t] = pc[t]]_vars

\* The chain has just run on a negative need.
C7_Witness ==
    \E s \in Sessions :
        /\ pc[s] = "panel"
        /\ advisory[s] # NoAdvisory
        /\ Input(s) = Num(-1000)
        /\ weekly_schedule[s] = Some(weeklyFile)

LastRow(w) == w[Len(w)]

\* C8: the need classified on the Dashboard is that of the last row of the
\* session's weekly schedule, and the same row gives the week shown, the
\* "Irrigation Needed" metric and the amount to apply.
C8_LatestRecord ==
    \A s \in Sessions :
        Classified(s) =>
            LET last == LastRow(weekly_schedule[s][1])
            IN  /\ latest_week[s] = Some(last)
                /\ advisory[s] = Cascade(last.Irrigation_needed_mm)
                /\ metrics[s] # None
                /\ metrics[s][1].week_ending = last.week
                /\ metrics[s][1].needed = Fmt1(last.Irrigation_needed_mm)
                /\ panel[s] # None =>
                       /\ panel[s][1].apply = Fmt0(last.Irrigation_needed_mm)
                       /\ panel[s][1].recommendation
                              = Cascade(last.Irrigation_needed_mm).recommendation

\* The last row is HEAVY, the row before it MINIMAL, and HEAVY is shown.
C8_Witness ==
    \E s \in Sessions :
        /\ Classified(s)
        /\ panel[s] # None
        /\ Len(weekly_schedule[s][1]) = 2
        /\ weekly_schedule[s][1][1].Irrigation_needed_mm = Num(0)
        /\ weekly_schedule[s][1][2].Irrigation_needed_mm = Num(40000)
        /\ TierOf(panel[s][1].recommendation) = "HEAVY"
        /\ panel[s][1].apply = [nan |-> FALSE, digits |-> 40, places |-> 0]

ErrorElement == "error: Data file not found"
WarningElement == "warning: ML model not found"

\* What each page puts on the screen when it runs to its end.
PageElements(p) ==
    CASE p = "Dashboard" ->
             {"Current Week Status", "metric: Week Ending", "metric: Irrigation Needed",
              "metric: Rainfall Received", "metric: Crop Water Need", "advisory",
              "chart: Water Balance - Last 12 Weeks", "chart: Daily Water Balance"}
      [] p = "7-Day Forecast" -> {"7-Day Irrigation Forecast", "Scenario Analysis"}
      [] p = "Historical Analysis" ->
             {"Historical Data Analysis", "Annual Water Balance",
              "Monthly Irrigation Patterns", "Key Statistics"}
      [] p = "About Gatsibo" -> {"About Gatsibo District"}
      [] p = "About This Tool" -> {"About This Tool"}
      [] OTHER -> {}

AllPageElements == UNION {PageElements(p) : p \in PageSet}

AnyDataFileAbsent ==
    \/ "gatsibo_complete_irrigation_data.csv" \in missing
    \/ "gatsibo_irrigation_schedule_weekly.csv" \in missing
    \/ "irrigation_forecast_7days.csv" \in missing

AnyModelFileAbsent ==
    \/ "irrigation_ml_model.pkl" \in missing
    \/ "model_features.pkl" \in missing

\* A run that load_data stopped: nothing of any page and no advisory.
StoppedBare(s) ==
    pc[s] = "stopped" =>
        /\ ErrorElement \in screen[s]
        /\ screen[s] \cap (AllPageElements \cup {"header", "sidebar", "footer"}) = {}
        /\ advisory[s] = NoAdvisory
        /\ panel[s] = None

\* A finished run shows its page in full, with or without the model.
DoneSameWithoutModel(s) ==
    pc[s] = "done" =>
        /\ model[s] # None
        /\ screen[s] \ {WarningElement}
               = {"style", "header", "sidebar", "footer"} \cup PageElements(page[s])

\* C9 as stated: whenever load_data is called with one of the three data
\* files absent the run is stopped with the error, and whenever load_model is
\* called with a model file absent it warns and returns (None, None), the
\* page being rendered as with the model.
C9_MissingFileStops ==
    [][\A s \in Sessions :
           /\ (pc[s] = "load_data" /\ pc'[s] # "load_data" /\ AnyDataFileAbsent) =>
                  /\ pc'[s] = "stopped"
                  /\ ErrorElement \in screen'[s]
           /\ (pc[s] = "load_model" /\ pc'[s] # "load_model" /\ AnyModelFileAbsent) =>
                  /\ pc'[s] = "header"
                  /\ WarningElement \in screen'[s]
                  /\ model'[s] = Some([model |-> "None", features |-> "None"])
           /\ StoppedBare(s)
           /\ DoneSameWithoutModel(s)]_vars

\* C9 amended: the same, for the calls that find nothing cached and so read
\* the files; a call that finds a cached result returns it without reading,
\* whatever files are absent.
C9_MissingFileStopsUncached ==
    [][\A s \in Sessions :
           /\ (pc[s] = "load_data" /\ pc'[s] # "load_data") =>
                  IF cache_data # None
                  THEN /\ pc'[s] = "load_model"
                       /\ weekly_schedule'[s] = Some(cache_data[1].weekly)
                       /\ screen'[s] = screen[s]
                  ELSE IF AnyDataFileAbsent
                  THEN /\ pc'[s] = "stopped"
                       /\ ErrorElement \in screen'[s]
                       /\ cache_data' = None
                  ELSE /\ pc'[s] = "load_model"
                       /\ cache_data' # None
                       /\ weekly_schedule'[s] = Some(weeklyFile)
           /\ (pc[s] = "load_model" /\ pc'[s] # "load_model") =>
                  /\ pc'[s] = "header"
                  /\ IF cache_resource # None
                     THEN model'[s] = cache_resource
                     ELSE AnyModelFileAbsent <=>
                              model'[s] = Some([model |-> "None", features |-> "None"])
                  /\ (cache_resource = None /\ AnyModelFileAbsent) =>
                         WarningElement \in screen'[s]
           /\ (pc[s] = "stopped" /\ pc'[s] # "stopped") => pc'[s] = "start"
           /\ StoppedBare(s)
           /\ DoneSameWithoutModel(s)]_vars

\* A run stopped because the weekly csv was absent and nothing was cached.
C9_Witness ==
    \E s \in Sessions :
        /\ pc[s] = "stopped"
        /\ "gatsibo_irrigation_schedule_weekly.csv" \in missing
        /\ cache_data = None
        /\ ErrorElement \in screen[s]

\* The run of session s got past data loading and has ended.
RunEnded(s) == pc[s] \in {"done", "crashed"}

PagesShown(s) == {p \in PageSet : PageElements(p) \subseteq screen[s]}

\* C10 as stated: a run that got past data loading shows the header, the
\* sidebar, the footer and exactly one of the five pages, and the advisory
\* was evaluated exactly when the page is Dashboard.
C10_OnePageAlways ==
    \A s \in Sessions :
        RunEnded(s) =>
            /\ {"header", "sidebar", "footer"} \subseteq screen[s]
            /\ PagesShown(s) = {page[s]}
            /\ advisory[s] # NoAdvisory <=> page[s] = "Dashboard"

\* The page selected raises before its end: the Dashboard with fewer than two
\* weekly rows, Historical Analysis with a month missing from the daily data.
PageRaises(s) ==
    \/ page[s] = "Dashboard" /\ Len(weekly_schedule[s][1]) < 2
    \/ page[s] = "Historical Analysis" /\ Cardinality(MonthsOf(data[s][1])) # 12

\* C10 amended: a run that got past data loading shows the header and the
\* sidebar and elements of the selected page only; unless that page raises it
\* shows the page in full and then the footer, and if it raises the run ends
\* there without the footer; the advisory is evaluated exactly on the
\* Dashboard with at least two weekly rows.
C10_OnePageUnlessRaises ==
    \A s \in Sessions :
        /\ RunEnded(s) =>
               /\ {"header", "sidebar"} \subseteq screen[s]
               /\ page[s] \in PageSet
               /\ page[s] = widget[s]
               /\ screen[s] \cap AllPageElements \subseteq PageElements(page[s])
               /\ pc[s] = "crashed" <=> PageRaises(s)
               /\ pc[s] = "done" =>
                      /\ "footer" \in screen[s]
                      /\ PagesShown(s) = {page[s]}
               /\ pc[s] = "crashed" =>
                      /\ "footer" \notin screen[s]
                      /\ PagesShown(s) = {}
               /\ advisory[s] # NoAdvisory <=>
                      (page[s] = "Dashboard" /\ Len(weekly_schedule[s][1]) >= 2)
        /\ advisory[s] # NoAdvisory =>
               (page[s] = "Dashboard" /\ Len(weekly_schedule[s][1]) >= 2)

\* A Dashboard run that ended with the advisory and the footer on the page.
C10_Witness ==
    \E s \in Sessions :
        /\ pc[s] = "done"
        /\ page[s] = "Dashboard"
        /\ advisory[s] # NoAdvisory
        /\ {"header", "sidebar", "advisory", "footer"} \subseteq screen[s]

\* The Dashboard section of session s's run has been entered and left.
DashboardEntered(s) ==
    /\ page[s] = "Dashboard"
    /\ pc[s] \in {"cascade", "panel", "charts", "footer", "done", "crashed"}

\* C11: on the Dashboard the delta between the last two weekly rows is
\* computed before the chain runs: when the chain is reached, and whenever an
\* advisory exists, the schedule holds at least two rows and the delta shown
\* is the last need minus the one before; with no row or one row the run
\* ends in an exception with recommendation, color and advice unassigned.
C11_DeltaBeforeCascade ==
    \A s \in Sessions :
        /\ (pc[s] = "cascade" \/ advisory[s] # NoAdvisory) =>
               LET w == weekly_schedule[s][1]
               IN  /\ Len(w) >= 2
                   /\ metrics[s] # None
                   /\ metrics[s][1].delta =
                          Fmt1(Sub(w[Len(w)].Irrigation_needed_mm,
                                   w[Len(w) - 1].Irrigation_needed_mm))
        /\ (DashboardEntered(s) /\ Len(weekly_schedule[s][1]) < 2) =>
               /\ pc[s] = "crashed"
               /\ "exception" \in screen[s]
               /\ advisory[s] = NoAdvisory
               /\ panel[s] = None
               /\ metrics[s] = None
               /\ "advisory" \notin screen[s]

\* A Dashboard run over a one-row schedule: latest_week was bound, then the
\* delta raised.
C11_Witness ==
    \E s \in Sessions :
        /\ pc[s] = "crashed"
        /\ page[s] = "Dashboard"
        /\ Len(weekly_schedule[s][1]) = 1
        /\ latest_week[s] = Some(weekly_schedule[s][1][1])
        /\ advisory[s] = NoAdvisory

=============================================================================
